---- MODULE Spec2Model ----
(***************************************************************************)
(* Model of transit_delay_predictor.py: the Streamlit bus delay predictor. *)
(*                                                                         *)
(* Numbers.  The program computes with floating point reals.  The model    *)
(* computes with exact fractions held as integers:                         *)
(*   - a route length is a whole number of 1/LengthUnits kilometres;       *)
(*   - a weather or time factor is a whole number of tenths;               *)
(*   - a random factor is a whole number of 1/(10*RandomUnits);            *)
(*   - base_delay as returned (one decimal) is a whole number of tenths    *)
(*     of a minute.                                                        *)
(* total_delay is therefore the fraction TotalNum / TotalDen.  The exact   *)
(* product stands for the float product.  With lengths in fifths of a      *)
(* kilometre and random factors in tenths, round() of the exact product    *)
(* and of the float product agree at every point of the grid, and so do    *)
(* the two one-decimal roundings of base_delay; on finer grids the float   *)
(* product can miss an exact tie by one unit of rounding error.            *)
(***************************************************************************)
EXTENDS Integers, Sequences, FiniteSets, TLC

(* ---- bounds of the model ---- *)
LengthUnits == 5
RandomUnits == 1
MaxLengthKm == 20
MinLengthKm == 1
MaxRows == 2
MaxRoute == 2
MaxStops == 1

(* ---- constants of the program ---- *)
BaseRateTenths == 3
FactorDen == 10
RushFactor == 14
RegularFactor == 10
RandomLowTenths == 7
RandomHighTenths == 18
LastHour == 23

VARIABLES routesFile, stopsFile, cache, session_state, selected, run, pressed, est

vars == <<routesFile, stopsFile, cache, session_state, selected, run, pressed, est>>

Abs(x) == IF x < 0 THEN -x ELSE x

(***************************************************************************)
(* get_current_weather: the table and the pick.  random.choice is the      *)
(* input `choice`, an index into the table.                                *)
(***************************************************************************)
weather_options ==
  << [name |-> "Sunny",        factor |-> 10],
     [name |-> "Cloudy",       factor |-> 11],
     [name |-> "Light Rain",   factor |-> 13],
     [name |-> "Heavy Rain",   factor |-> 16],
     [name |-> "Snow",         factor |-> 18],
     [name |-> "Ice/Freezing", factor |-> 20] >>

Choices == 1..Len(weather_options)

get_current_weather(choice) ==
  <<weather_options[choice].name, weather_options[choice].factor>>

(* datetime.now().hour *)
Hours == 0..LastHour

is_rush_hour_late_start(current_hour) ==
  IF (7 < current_hour /\ current_hour <= 9) \/ (16 <= current_hour /\ current_hour <= 18)
  THEN <<TRUE, "Rush Hour", RushFactor>>
  ELSE <<FALSE, "Regular Time", RegularFactor>>

is_rush_hour(current_hour) ==
  IF (7 <= current_hour /\ current_hour <= 9) \/ (16 <= current_hour /\ current_hour <= 18)
  THEN <<TRUE, "Rush Hour", RushFactor>>
  ELSE <<FALSE, "Regular Time", RegularFactor>>

(* random.uniform(0.7, 1.8): the end point may or may not be drawn *)
RandomFactors == (RandomLowTenths * RandomUnits)..(RandomHighTenths * RandomUnits)

(***************************************************************************)
(* Python's round(x) on the fraction n/d, d > 0: nearest integer, a tie    *)
(* goes to the even neighbour.  \div is floor division and % is its        *)
(* non-negative remainder, so the same text serves negative n.             *)
(***************************************************************************)
round_half_up(n, d) ==
  LET q == n \div d
      r == n % d
  IN  IF 2 * r < d THEN q ELSE q + 1

round(n, d) ==
  LET q == n \div d
      r == n % d
  IN  IF 2 * r < d THEN q
      ELSE IF 2 * r > d THEN q + 1
      ELSE IF q % 2 = 0 THEN q ELSE q + 1

(* total_delay = TotalNum / TotalDen *)
TotalDen == LengthUnits * FactorDen * FactorDen * FactorDen * (FactorDen * RandomUnits)

TotalNum(route_length, weather_factor, time_factor, random_factor) ==
  route_length * BaseRateTenths * weather_factor * time_factor * random_factor

(* round(base_delay, 1), in tenths of a minute *)
round1(route_length) == round(route_length * BaseRateTenths, LengthUnits)

Prediction(delay, w, t, base) ==
  [ delay_minutes  |-> delay,
    weather        |-> w[1],
    weather_factor |-> w[2],
    time_period    |-> t[2],
    time_factor    |-> t[3],
    base_delay     |-> base,
    is_rush        |-> t[1] ]

(* the plausible slips the claims are tested against *)
predict_delay_display_base(route_length, choice, current_hour, random_factor) ==
  LET w == get_current_weather(choice)
      t == is_rush_hour(current_hour)
      base == round1(route_length)
  IN  Prediction(round(base * w[2] * t[3] * random_factor,
                       FactorDen * FactorDen * FactorDen * (FactorDen * RandomUnits)),
                 w, t, base)

predict_delay_random_offset(route_length, choice, current_hour, random_factor) ==
  LET w == get_current_weather(choice)
      t == is_rush_hour(current_hour)
  IN  Prediction(round(TotalNum(route_length, w[2], t[3], random_factor - FactorDen * RandomUnits),
                       TotalDen),
                 w, t, round1(route_length))

predict_delay(route_length, choice, current_hour, random_factor) ==
  LET w == get_current_weather(choice)
      t == is_rush_hour(current_hour)
  IN  Prediction(round(TotalNum(route_length, w[2], t[3], random_factor), TotalDen),
                 w, t, round1(route_length))

(***************************************************************************)
(* The results section of main: the status of the big display and the tip  *)
(* of the tips section, each its own if/elif chain over delay_minutes.     *)
(***************************************************************************)
status_text_strict(delay) ==
  IF delay < 2 THEN "ON TIME"
  ELSE IF delay <= 5 THEN "SLIGHTLY LATE"
  ELSE IF delay <= 10 THEN "MODERATELY LATE"
  ELSE "VERY LATE"

status_text(delay) ==
  IF delay <= 2 THEN "ON TIME"
  ELSE IF delay <= 5 THEN "SLIGHTLY LATE"
  ELSE IF delay <= 10 THEN "MODERATELY LATE"
  ELSE "VERY LATE"

journey_tip(delay) ==
  IF delay <= 2 THEN "on schedule"
  ELSE IF delay <= 5 THEN "leave 5 minutes early"
  ELSE IF delay <= 10 THEN "leave 10-15 minutes early"
  ELSE "alternate routes"

(***************************************************************************)
(* The estimator on its own: Init draws the arguments and the three        *)
(* sources of entropy (weather pick, clock, uniform draw), EvalPredict     *)
(* applies predict_delay, EvalDisplay applies the results section.         *)
(***************************************************************************)
Lengths == (-(MinLengthKm * LengthUnits))..(MaxLengthKm * LengthUnits)

NoPrediction == Prediction(0, <<"", 0>>, <<FALSE, "", 0>>, 0)

EstInputs ==
  [ stage : {"input"}, route_length : Lengths, choice : Choices,
    current_hour : Hours, random_factor : RandomFactors,
    prediction : {NoPrediction}, status_text : {""}, tip : {""} ]

EstIdle ==
  [ stage |-> "idle", route_length |-> 0, choice |-> 1, current_hour |-> 0,
    random_factor |-> 0, prediction |-> NoPrediction, status_text |-> "", tip |-> "" ]

EvalPredict ==
  /\ est.stage = "input"
  /\ est' = [est EXCEPT !.stage = "predicted",
                        !.prediction = predict_delay(est.route_length, est.choice,
                                                     est.current_hour, est.random_factor)]
  /\ UNCHANGED <<routesFile, stopsFile, cache, session_state, selected, run, pressed>>

EvalDisplay ==
  /\ est.stage = "predicted"
  /\ est' = [est EXCEPT !.stage = "shown",
                        !.status_text = status_text(est.prediction.delay_minutes),
                        !.tip = journey_tip(est.prediction.delay_minutes)]
  /\ UNCHANGED <<routesFile, stopsFile, cache, session_state, selected, run, pressed>>

(***************************************************************************)
(* The files and the tables.  A file is unreadable when it is missing or   *)
(* does not parse; pd.read_csv then raises.  A routes row carries the      *)
(* three columns main reads; of the stops table only the row count is      *)
(* read.  Python's None and a DataFrame are told apart by isNone.          *)
(***************************************************************************)
Names == {"A", "B"}

RowLengths == {-LengthUnits, 0, 5 * LengthUnits}

Rows == [Route : 1..MaxRoute, FullName : Names, Length : RowLengths]

RouteTables == UNION {[1..n -> Rows] : n \in 0..MaxRows}

StopTables == {[i \in 1..n |-> i] : n \in 0..MaxStops}

Unreadable == [readable |-> FALSE, rows |-> <<>>]

File(rows) == [readable |-> TRUE, rows |-> rows]

None == [isNone |-> TRUE, rows |-> <<>>]

DataFrame(rows) == [isNone |-> FALSE, rows |-> rows]

Loaded(routes, stops, error) ==
  [routes_data |-> routes, stops_data |-> stops, error |-> error]

(* a loader that guards each file on its own *)
load_bus_data_per_file(routes_csv, stops_csv) ==
  Loaded(IF routes_csv.readable THEN DataFrame(routes_csv.rows) ELSE None,
         IF stops_csv.readable THEN DataFrame(stops_csv.rows) ELSE None,
         ~(routes_csv.readable /\ stops_csv.readable))

(* one try block around both reads; the except branch calls st.error *)
load_bus_data(routes_csv, stops_csv) ==
  IF routes_csv.readable /\ stops_csv.readable
  THEN Loaded(DataFrame(routes_csv.rows), DataFrame(stops_csv.rows), FALSE)
  ELSE Loaded(None, None, TRUE)

(* st.cache_data: the body runs on the first call only; its return value   *)
(* and the elements it showed are replayed afterwards                      *)
EmptyCache == [filled |-> FALSE, value |-> Loaded(None, None, FALSE)]

cached_load_bus_data == IF cache.filled THEN cache.value ELSE load_bus_data(routesFile, stopsFile)

(* if routes_data is None: st.stop() *)
never_stop(routes_data) == FALSE

stop_if_unavailable(routes_data) == routes_data.isNone

(***************************************************************************)
(* The dropdown.  An option is a distinct (Route, FullName) pair; its      *)
(* text "Route <Route> - <FullName>" is the key of route_options and the   *)
(* pair stands for the text (the names carry no " - ", so the text         *)
(* determines the pair).  route_options maps the text to the Route.        *)
(* The first entry of the sorted list is the selectbox's default: an       *)
(* option of least Route.                                                  *)
(***************************************************************************)
unique_routes(rows) == {<<rows[i].Route, rows[i].FullName>> : i \in DOMAIN rows}

route_options(text) == text[1]

FirstOptions(options) == {o \in options : \A p \in options : o[1] <= p[1]}

(* routes_data[routes_data['Route'] == selected_route].iloc[0] *)
first_row_of_route(rows, selected_route) ==
  rows[CHOOSE i \in DOMAIN rows :
         /\ rows[i].Route = selected_route
         /\ \A j \in DOMAIN rows : rows[j].Route = selected_route => i <= j]

NoRouteInfo == [number |-> 0, name |-> "", length |-> 0]

NoSession == [keys |-> {}, prediction |-> NoPrediction, route_info |-> NoRouteInfo]

(* the two assignments to st.session_state *)
store_prediction_only(state, prediction, route_info) ==
  [keys |-> state.keys \cup {"prediction"},
   prediction |-> prediction, route_info |-> state.route_info]

store_result(state, prediction, route_info) ==
  [keys |-> state.keys \cup {"prediction", "route_info"},
   prediction |-> prediction, route_info |-> route_info]

NoSelection == [set |-> FALSE, option |-> <<0, "">>]

(* what one run of the script did *)
NoRun ==
  [ outcome |-> "none", load_failed |-> FALSE, error_reported |-> FALSE,
    dropdown |-> FALSE, button |-> FALSE, predict_called |-> FALSE,
    route_number |-> 0, route_name |-> "", route_length |-> 0,
    wrote |-> FALSE, shown |-> FALSE, status_text |-> "", tip |-> "" ]

Shown(r, state) ==
  IF "prediction" \in state.keys
  THEN [r EXCEPT !.shown = TRUE,
                 !.status_text = status_text(state.prediction.delay_minutes),
                 !.tip = journey_tip(state.prediction.delay_minutes)]
  ELSE r

(***************************************************************************)
(* One run of main, top to bottom.  button: whether this run was started   *)
(* by the predict button; widget: the selectbox state the run starts       *)
(* with; the other three are the clock and the two random draws.  The two  *)
(* metrics of the conditions column are display only and leave no state.   *)
(***************************************************************************)
main(button, widget, current_hour, choice, random_factor) ==
  LET loaded == cached_load_bus_data
      routes_data == loaded.routes_data
      stops_data == loaded.stops_data
      r0 == [NoRun EXCEPT !.load_failed = routes_data.isNone \/ stops_data.isNone,
                          !.error_reported = loaded.error,
                          !.button = button]
  IN
  /\ cache' = [filled |-> TRUE, value |-> loaded]
  /\ UNCHANGED <<routesFile, stopsFile, est>>
  /\ IF stop_if_unavailable(routes_data)
     THEN /\ run' = [r0 EXCEPT !.outcome = "stopped"]
          /\ UNCHANGED <<session_state, selected, pressed>>
     ELSE IF routes_data.isNone \/ stops_data.isNone
     THEN \* len(None) in the sidebar raises TypeError
          /\ run' = [r0 EXCEPT !.outcome = "crashed"]
          /\ UNCHANGED <<session_state, selected, pressed>>
     ELSE LET rows == routes_data.rows
              options == unique_routes(rows)
          IN
          IF options = {}
          THEN \* selectbox returns None and route_options[None] raises KeyError
               /\ run' = [r0 EXCEPT !.outcome = "crashed", !.dropdown = TRUE]
               /\ UNCHANGED <<session_state, selected, pressed>>
          ELSE \E selected_route_text \in
                    (IF widget.set THEN {widget.option} ELSE FirstOptions(options)) :
               LET selected_route == route_options(selected_route_text)
                   route_info == first_row_of_route(rows, selected_route)
                   route_name == route_info.FullName
                   route_length == route_info.Length
                   prediction == predict_delay(route_length, choice, current_hour, random_factor)
                   stored == store_result(session_state, prediction,
                                          [number |-> selected_route, name |-> route_name,
                                           length |-> route_length])
                   r1 == [r0 EXCEPT !.dropdown = TRUE, !.outcome = "done"]
               IN
               /\ selected' = [set |-> TRUE, option |-> selected_route_text]
               /\ IF button
                  THEN /\ session_state' = stored
                       /\ pressed' = selected_route_text
                       /\ run' = Shown([r1 EXCEPT !.predict_called = TRUE,
                                                  !.route_number = selected_route,
                                                  !.route_name = route_name,
                                                  !.route_length = route_length,
                                                  !.wrote = TRUE], stored)
                  ELSE /\ UNCHANGED <<session_state, pressed>>
                       /\ run' = Shown(r1, session_state)

(* the clock and the draws a run of the session may see *)
SessionHours == {8, 12}

SessionRandom == {RandomLowTenths * RandomUnits, RandomHighTenths * RandomUnits}

SessionChoices == {1, Len(weather_options)}

(* the page is opened or rerun without touching a widget *)
Rerun ==
  \E h \in SessionHours, c \in SessionChoices, rf \in SessionRandom :
    main(FALSE, selected, h, c, rf)

(* the user picks another option of the dropdown the last run rendered *)
SelectRoute ==
  /\ run.dropdown /\ run.outcome = "done"
  /\ \E o \in unique_routes(cache.value.routes_data.rows) :
       /\ o # selected.option
       /\ \E h \in SessionHours, c \in SessionChoices, rf \in SessionRandom :
            main(FALSE, [set |-> TRUE, option |-> o], h, c, rf)

(* the user presses the predict button the last run rendered *)
PressPredict ==
  /\ run.dropdown /\ run.outcome = "done"
  /\ \E h \in SessionHours, c \in SessionChoices, rf \in SessionRandom :
       main(TRUE, selected, h, c, rf)

SessionStart ==
  /\ cache = EmptyCache
  /\ session_state = NoSession
  /\ selected = NoSelection
  /\ run = NoRun
  /\ pressed = <<0, "">>

Init ==
  /\ routesFile \in {Unreadable} \cup {File(t) : t \in RouteTables}
  /\ stopsFile \in {Unreadable} \cup {File(t) : t \in StopTables}
  /\ SessionStart
  /\ est = EstIdle

Next == Rerun \/ SelectRoute \/ PressPredict

Spec == Init /\ [][Next]_vars

InitEstimator ==
  /\ routesFile = Unreadable
  /\ stopsFile = Unreadable
  /\ SessionStart
  /\ est \in EstInputs

NextEstimator == EvalPredict \/ EvalDisplay

SpecEstimator == InitEstimator /\ [][NextEstimator]_vars

(***************************************************************************)
(*                              The claims                                 *)
(***************************************************************************)

(* C1: for a route length >= 0, delay_minutes is the nearest integer of    *)
(* routeLength * 0.3 * weatherFactor * timeFactor * randomFactor taken at  *)
(* full precision, base_delay is that base to one decimal, and the two     *)
(* worked cases give (3.0, 3) and (6.0, 30).                               *)
C1_DelayIsNearestInteger ==
  (est.stage \in {"predicted", "shown"} /\ est.route_length >= 0) =>
    LET wf == weather_options[est.choice].factor
        tf == IF est.current_hour \in (7..9) \cup (16..18) THEN 14 ELSE 10
        n == est.route_length * 3 * wf * tf * est.random_factor
        d == LengthUnits * 10 * 10 * 10 * (10 * RandomUnits)
        p == est.prediction
    IN  /\ 2 * Abs(p.delay_minutes * d - n) <= d
        /\ 2 * Abs(p.base_delay * LengthUnits - 3 * est.route_length) <= LengthUnits
        /\ p.weather_factor = wf /\ p.time_factor = tf
        /\ ( /\ est.route_length = 10 * LengthUnits /\ wf = 10 /\ tf = 10
             /\ est.random_factor = 10 * RandomUnits )
           => (p.base_delay = 30 /\ p.delay_minutes = 3)
        /\ ( /\ est.route_length = 20 * LengthUnits /\ wf = 20 /\ tf = 14
             /\ est.random_factor = 18 * RandomUnits )
           => (p.base_delay = 60 /\ p.delay_minutes = 30)

(* a prediction whose one-decimal base_delay differs from the full base     *)
(* and whose delay differs from the one the displayed base would give       *)
C1_Witness ==
  /\ est.stage = "predicted"
  /\ est.route_length > 0
  /\ est.prediction.base_delay * LengthUnits # 3 * est.route_length
  /\ est.prediction.delay_minutes #
       round(est.prediction.base_delay * est.prediction.weather_factor
               * est.prediction.time_factor * est.random_factor,
             10 * 10 * 10 * (10 * RandomUnits))

(* C2: a delay_minutes produced for a route length >= 0 is a non-negative  *)
(* integer, whatever the weather, the hour and the random factor.          *)
C2_DelayNonNegative ==
  (est.stage \in {"predicted", "shown"} /\ est.route_length >= 0) =>
    est.prediction.delay_minutes \in Nat

(* a positive length under the smallest random factor, rounded down to 0   *)
C2_Witness ==
  /\ est.stage = "predicted"
  /\ est.route_length > 0
  /\ est.random_factor = 7 * RandomUnits
  /\ est.prediction.delay_minutes = 0

(* C3: for every hour 0..23 the flag, the label and the factor are         *)
(* (TRUE, rush hour, 1.4) exactly for the hours 7..9 and 16..18 and        *)
(* (FALSE, regular, 1.0) for every other hour.                             *)
C3_RushHourWindows ==
  est.stage \in {"predicted", "shown"} =>
    LET p == est.prediction
    IN  IF est.current_hour \in {7, 8, 9, 16, 17, 18}
        THEN p.is_rush = TRUE /\ p.time_period = "Rush Hour" /\ p.time_factor = 14
        ELSE p.is_rush = FALSE /\ p.time_period = "Regular Time" /\ p.time_factor = 10

(* the first hour of the morning window *)
C3_Witness ==
  /\ est.stage = "predicted"
  /\ est.current_hour = 7
  /\ est.prediction.is_rush = TRUE

(* C4: the loader is all-or-nothing: with either file unreadable it        *)
(* reports the failure and both results are None; otherwise both tables    *)
(* are returned; never one table with a missing other.                     *)
C4_AllOrNothing ==
  cache.filled =>
    LET v == cache.value
    IN  /\ v.routes_data.isNone <=> v.stops_data.isNone
        /\ (~routesFile.readable \/ ~stopsFile.readable)
             => (v.routes_data.isNone /\ v.stops_data.isNone /\ v.error)
        /\ (routesFile.readable /\ stopsFile.readable)
             => /\ ~v.routes_data.isNone /\ ~v.stops_data.isNone /\ ~v.error
                /\ v.routes_data.rows = routesFile.rows
                /\ v.stops_data.rows = stopsFile.rows

(* the routes file reads, the stops file does not, and no table came back  *)
C4_Witness ==
  /\ cache.filled
  /\ routesFile.readable /\ Len(routesFile.rows) > 0
  /\ ~stopsFile.readable
  /\ cache.value.routes_data.isNone /\ cache.value.stops_data.isNone

(* C5: a run whose load failed reports the error and stops before the      *)
(* interactive part: no dropdown, no button handling, no call of           *)
(* predict_delay, nothing written to session state; and so it is in every  *)
(* later run.                                                              *)
C5_FailedLoadHalts ==
  /\ [](run.load_failed =>
          /\ run.outcome = "stopped" /\ run.error_reported
          /\ ~run.dropdown /\ ~run.button /\ ~run.predict_called /\ ~run.wrote
          /\ session_state.keys = {})
  /\ [][run.load_failed => (run'.load_failed /\ session_state' = session_state)]_vars

(* a failed load with a readable routes file: only the stops are missing   *)
C5_Witness ==
  /\ run.load_failed
  /\ run.outcome = "stopped"
  /\ routesFile.readable /\ Len(routesFile.rows) > 0

(* C6: the displayed delay is in exactly one band: <= 2 on time, 3..5      *)
(* slightly late, 6..10 moderately late, > 10 very late; the tip is the    *)
(* one of the band of the status.                                          *)
C6_SeverityBands ==
  est.stage = "shown" =>
    LET d == est.prediction.delay_minutes
        band == CASE d <= 2 -> 1
                  [] d > 2 /\ d <= 5 -> 2
                  [] d > 5 /\ d <= 10 -> 3
                  [] d > 10 -> 4
        statuses == <<"ON TIME", "SLIGHTLY LATE", "MODERATELY LATE", "VERY LATE">>
        tips == <<"on schedule", "leave 5 minutes early",
                  "leave 10-15 minutes early", "alternate routes">>
    IN  /\ est.status_text = statuses[band]
        /\ est.tip = tips[band]
        /\ d = 2 => est.status_text = "ON TIME"
        /\ d = 3 => est.status_text = "SLIGHTLY LATE"
        /\ d = 6 => est.status_text = "MODERATELY LATE"
        /\ d = 11 => est.status_text = "VERY LATE"

(* the last delay that is still on time *)
C6_Witness ==
  /\ est.stage = "shown"
  /\ est.prediction.delay_minutes = 2
  /\ est.status_text = "ON TIME"
  /\ est.tip = "on schedule"

(* C7: no non-positive length reaches predict_delay: the route_length      *)
(* passed to it is always positive.                                        *)
C7_LengthPositive ==
  run.predict_called => run.route_length > 0

(* C8, as stated: a total delay of k + 0.5, k >= 0, gives k + 1.           *)
C8_HalfAwayFromZero ==
  est.stage \in {"predicted", "shown"} =>
    LET tf == IF est.current_hour \in (7..9) \cup (16..18) THEN 14 ELSE 10
        n == est.route_length * 3 * weather_options[est.choice].factor
               * tf * est.random_factor
        d == LengthUnits * 10 * 10 * 10 * (10 * RandomUnits)
        k == n \div d
    IN  (n >= 0 /\ 2 * (n % d) = d) => est.prediction.delay_minutes = k + 1

(* C8, amended: a total delay of k + 0.5, k >= 0, gives the even one of    *)
(* k and k + 1: k + 1 for odd k, k for even k.                             *)
C8_HalfToEven ==
  est.stage \in {"predicted", "shown"} =>
    LET tf == IF est.current_hour \in (7..9) \cup (16..18) THEN 14 ELSE 10
        n == est.route_length * 3 * weather_options[est.choice].factor
               * tf * est.random_factor
        d == LengthUnits * 10 * 10 * 10 * (10 * RandomUnits)
        k == n \div d
    IN  (n >= 0 /\ 2 * (n % d) = d) =>
          est.prediction.delay_minutes = (IF k % 2 = 0 THEN k ELSE k + 1)

(* 5 km on ice at a regular hour with random factor 1.5: 4.5 gives 4       *)
C8_Witness ==
  /\ est.stage = "predicted"
  /\ est.route_length = 5 * LengthUnits
  /\ weather_options[est.choice].factor = 20
  /\ est.prediction.time_factor = 10
  /\ 2 * est.random_factor = 3 * 10 * RandomUnits
  /\ est.prediction.delay_minutes = 4

(* C9: the name and the length used by a prediction are those of a row     *)
(* whose Route and FullName are both those of the chosen option.           *)
C9_SelectedRowFeedsPrediction ==
  run.predict_called =>
    \E i \in DOMAIN routesFile.rows :
      /\ routesFile.rows[i].Route = selected.option[1]
      /\ routesFile.rows[i].FullName = selected.option[2]
      /\ run.route_name = routesFile.rows[i].FullName
      /\ run.route_length = routesFile.rows[i].Length

====
